---------------------------- MODULE Spec2Model ----------------------------
(***************************************************************************)
(* Ledger core of the bank management system (src/firstpbl.py): the        *)
(* Account entity, its transaction log, and the BankManagementSystem       *)
(* directory with its JSON persistence.                                    *)
(*                                                                         *)
(* Python floats are modelled as binary fixed-point numbers: the integer n *)
(* stands for the amount n / Unit.  Addition and subtraction are exact on  *)
(* this grid, multiplication and division round to the nearest grid point  *)
(* (ties to even), as IEEE arithmetic does on its own grid.                *)
(* Python strings that the code takes apart (identifiers, PINs) are        *)
(* sequences of one-character strings; strings that are only stored and    *)
(* compared are TLA+ strings.  A Python dict is a sequence of <<key,       *)
(* value>> pairs in insertion order.                                       *)
(***************************************************************************)
EXTENDS Integers, Sequences, FiniteSets, TLC

(***************************************************************************)
(* Bounds of the model.                                                    *)
(***************************************************************************)
FracBits == 2
MaxAccounts == 2
MaxIds == 2
MaxTx == 1
LedgerMaxAccounts == 1
LedgerMaxTx == 3
FrameMaxTx == 2
ShellMaxAccounts == 2
ShellMaxTx == 1
SavedShellMaxTx == 2
MaxClock == 1
MaxUnsaved == 1

Unit == 2 ^ FracBits

\* The float with the whole value n, and the float n / 2.
Whole(n) == n * Unit
Halves(n) == (n * Unit) \div 2

(***************************************************************************)
(* Inputs a caller may pass, and the outcomes of writing the data file.    *)
(***************************************************************************)
Names == {"", "Alice"}
PinGood == <<"1", "2", "3", "4">>
PinBad == <<"1", "2", "a">>
Pins == {PinGood, PinBad}
AccountTypes == {"Savings", "Current"}
InitialDeposits == {Whole(0 - 100), Whole(0), Whole(100)}
Amounts == {Whole(0 - 50), Whole(0), Whole(50), Whole(200)}
Rates == {Whole(0 - 200), Whole(0), Halves(7)}
IOOutcomes == {"ok", "open_fails", "write_fails"}
\* Fields a record of the data file may have lost when it is read.
DamagedFields == {"transactions"}

\* Lines typed at the prompts of the text shell.
NameLines == {<<" ">>, <<"A", "l", " ">>}
PinOther == <<"4", "3", "2", "1">>
PinLines == {PinGood \o <<" ">>, <<"1", "2", "a", "b">>, PinOther}
TypeLines == {<<>>, <<" ">>}
DepositLines == {<<>>, <<"1", "0", "0">>, <<"-", "5">>, <<"x">>}
AmountLines == {<<"5", "0">>, <<"2", ".", "5">>, <<"0">>, <<"x">>}
RateLines == {<<>>, <<"x">>}
Answers == {<<"y">>, <<"Y">>, <<"n">>}
Confirms == {<<"D", "E", "L", "E", "T", "E">>, <<"n", "o">>}

(***************************************************************************)
(* Three scopes bound the same operations.  DirectoryScope varies the      *)
(* holders, PINs and I/O outcomes over several accounts and keeps          *)
(* histories short; LedgerScope keeps one kind of holder and one account   *)
(* at a time and lets the history grow; FrameScope keeps several accounts  *)
(* with histories, one holder name and no I/O failure.                     *)
(***************************************************************************)
DirectoryScope ==
    [names |-> Names, pins |-> Pins, types |-> {"Savings"},
     deposits |-> InitialDeposits, amounts |-> {Whole(0), Whole(50)},
     rates |-> {Halves(7)}, io |-> {"ok", "write_fails"},
     maxAccounts |-> MaxAccounts, maxTx |-> MaxTx]

LedgerScope ==
    [names |-> {"Alice"}, pins |-> {PinGood}, types |-> AccountTypes,
     deposits |-> InitialDeposits, amounts |-> Amounts,
     rates |-> Rates, io |-> {"ok", "open_fails"},
     maxAccounts |-> LedgerMaxAccounts, maxTx |-> LedgerMaxTx]

FrameScope ==
    [names |-> {"Alice"}, pins |-> Pins, types |-> {"Savings"},
     deposits |-> {Whole(0), Whole(100)}, amounts |-> {Whole(50)},
     rates |-> {Halves(7)}, io |-> {"ok"},
     maxAccounts |-> MaxAccounts, maxTx |-> FrameMaxTx]

(***************************************************************************)
(* Float arithmetic on the grid.                                           *)
(***************************************************************************)
Abs(x) == IF x < 0 THEN 0 - x ELSE x

\* a / b for b > 0, rounded to the nearest integer, ties to even.
RoundDiv(a, b) ==
    LET q == a \div b
        r == a % b
    IN  IF 2 * r < b THEN q
        ELSE IF 2 * r > b THEN q + 1
        ELSE IF q % 2 = 0 THEN q ELSE q + 1

FMul(x, y) == RoundDiv(x * y, Unit)
FDiv(x, y) == IF y > 0 THEN RoundDiv(x * Unit, y) ELSE 0 - RoundDiv(x * Unit, 0 - y)

(***************************************************************************)
(* str(n) and int(s) on decimal numerals, and the formats the code uses.   *)
(***************************************************************************)
DigitChars == <<"0", "1", "2", "3", "4", "5", "6", "7", "8", "9">>

isdigit(s) == Len(s) > 0 /\ \A i \in 1..Len(s) : \E d \in 1..10 : DigitChars[d] = s[i]

RECURSIVE str(_)
str(n) ==
    IF n < 0 THEN <<"-">> \o str(0 - n)
    ELSE IF n < 10 THEN <<DigitChars[n + 1]>>
    ELSE str(n \div 10) \o <<DigitChars[(n % 10) + 1]>>

DigitVal(c) == (CHOOSE d \in 1..10 : DigitChars[d] = c) - 1

RECURSIVE int(_)
int(s) ==
    IF Len(s) = 0 THEN 0
    ELSE IF s[1] = "-" THEN 0 - int(Tail(s))
    ELSE int(SubSeq(s, 1, Len(s) - 1)) * 10 + DigitVal(s[Len(s)])

Pad2(n) == IF n < 10 THEN "0" \o ToString(n) ELSE ToString(n)

\* datetime.now().strftime("%Y-%m-%d %H:%M:%S") at second t of the session.
strftime(t) ==
    "2025-01-01 00:" \o Pad2((t \div 60) % 60) \o ":" \o Pad2(t % 60)

\* f"{x:.2f}": the amount rounded to hundredths.
Format2f(x) ==
    LET h == RoundDiv(Abs(x) * 100, Unit)
    IN  (IF x < 0 /\ h > 0 THEN "-" ELSE "") \o ToString(h \div 100) \o "." \o Pad2(h % 100)

(***************************************************************************)
(* Python dict: pairs in insertion order.                                  *)
(***************************************************************************)
DictKeys(d) == {d[i][1] : i \in 1..Len(d)}
DictHas(d, k) == \E i \in 1..Len(d) : d[i][1] = k
DictGet(d, k) == d[CHOOSE i \in 1..Len(d) : d[i][1] = k][2]
DictSet(d, k, v) ==
    IF DictHas(d, k)
    THEN [i \in 1..Len(d) |-> IF d[i][1] = k THEN <<k, v>> ELSE d[i]]
    ELSE Append(d, <<k, v>>)
DictDel(d, k) == SelectSeq(d, LAMBDA e : e[1] # k)


(***************************************************************************)
(* Outcome of a call: the exception raised ("None" when it returns), the   *)
(* exception's message, and the object state after the call.               *)
(***************************************************************************)
Returned(obj) == [exc |-> "None", msg |-> "", self |-> obj]
Raised(kind, message, obj) == [exc |-> kind, msg |-> message, self |-> obj]

(***************************************************************************)
(* class Account                                                           *)
(***************************************************************************)
Account(account_number, name, pin, balance, account_type, now) ==
    [account_number |-> account_number,
     name |-> name,
     pin |-> pin,
     balance |-> balance,
     account_type |-> account_type,
     creation_date |-> strftime(now),
     transactions |-> <<>>]

\* _add_transaction that puts the newest record first.
add_transaction_prepend(self, trans_type, amount, balance, now) ==
    [self EXCEPT !.transactions =
        <<[type |-> trans_type,
           amount |-> amount,
           balance |-> balance,
           date |-> strftime(now)]>> \o @]

add_transaction(self, trans_type, amount, balance, now) ==
    [self EXCEPT !.transactions =
        Append(@, [type |-> trans_type,
                   amount |-> amount,
                   balance |-> balance,
                   date |-> strftime(now)])]

\* deposit that logs the transaction before it updates the balance.
deposit_logs_old_balance(self, amount, now) ==
    IF amount <= 0
    THEN Raised("InvalidAmountError", "Deposit amount must be positive", self)
    ELSE LET s1 == add_transaction(self, "Deposit", amount, self.balance, now)
         IN  Returned([s1 EXCEPT !.balance = @ + amount])

\* deposit with the guard written as amount < 0: a zero amount is accepted.
deposit_accepts_zero(self, amount, now) ==
    IF amount < 0
    THEN Raised("InvalidAmountError", "Deposit amount must be positive", self)
    ELSE LET s1 == [self EXCEPT !.balance = @ + amount]
         IN  Returned(add_transaction(s1, "Deposit", amount, s1.balance, now))

deposit(self, amount, now) ==
    IF amount <= 0
    THEN Raised("InvalidAmountError", "Deposit amount must be positive", self)
    ELSE LET s1 == [self EXCEPT !.balance = @ + amount]
         IN  Returned(add_transaction(s1, "Deposit", amount, s1.balance, now))

\* withdraw with the balance test written as amount >= balance: the whole
\* balance cannot be withdrawn.
withdraw_keeps_one(self, amount, now) ==
    IF amount <= 0
    THEN Raised("InvalidAmountError", "Withdrawal amount must be positive", self)
    ELSE IF amount >= self.balance
    THEN Raised("InsufficientBalanceError",
                "Insufficient balance. Available: ₹" \o Format2f(self.balance), self)
    ELSE LET s1 == [self EXCEPT !.balance = @ - amount]
         IN  Returned(add_transaction(s1, "Withdrawal", amount, s1.balance, now))

withdraw(self, amount, now) ==
    IF amount <= 0
    THEN Raised("InvalidAmountError", "Withdrawal amount must be positive", self)
    ELSE IF amount > self.balance
    THEN Raised("InsufficientBalanceError",
                "Insufficient balance. Available: ₹" \o Format2f(self.balance), self)
    ELSE LET s1 == [self EXCEPT !.balance = @ - amount]
         IN  Returned(add_transaction(s1, "Withdrawal", amount, s1.balance, now))

\* calculate_interest that divides the rate by 100 first.
calculate_interest_rate_first(self, rate) == FMul(self.balance, FDiv(rate, Whole(100)))

calculate_interest(self, rate) == FDiv(FMul(self.balance, rate), Whole(100))

add_interest(self, rate, now) ==
    LET interest == calculate_interest(self, rate)
        s1 == [self EXCEPT !.balance = @ + interest]
    IN  Returned(add_transaction(s1, "Interest Credit", interest, s1.balance, now))

get_details(self) ==
    << <<"account_number", self.account_number>>,
       <<"name", self.name>>,
       <<"pin", self.pin>>,
       <<"balance", self.balance>>,
       <<"account_type", self.account_type>>,
       <<"creation_date", self.creation_date>>,
       <<"transactions", self.transactions>> >>

\* verify_pin that accepts every PIN.
verify_pin_any(self, pin) == TRUE

verify_pin(self, pin) == self.pin = pin

\* update_pin that starts the account's history afresh.
update_pin_resets_log(self, new_pin) ==
    [self EXCEPT !.pin = new_pin, !.transactions = <<>>]

update_pin(self, new_pin) == [self EXCEPT !.pin = new_pin]

(***************************************************************************)
(* json.dump / json.load.  A JSON object is the sequence of its members in *)
(* the order written; a JSON number is its decimal numeral: sign, integer  *)
(* part and fractional part (in grid units); a JSON string is the string.  *)
(***************************************************************************)
json_number(x) == [neg |-> x < 0, whole |-> Abs(x) \div Unit, frac |-> Abs(x) % Unit]

\* A number parser that reads the integer part only.
json_float_whole(n) == (IF n.neg THEN 0 - 1 ELSE 1) * (n.whole * Unit)

json_float(n) == (IF n.neg THEN 0 - 1 ELSE 1) * (n.whole * Unit + n.frac)

json_dump_transaction(t) ==
    << <<"type", t.type>>,
       <<"amount", json_number(t.amount)>>,
       <<"balance", json_number(t.balance)>>,
       <<"date", t.date>> >>

json_load_transaction(o) ==
    [type |-> DictGet(o, "type"),
     amount |-> json_float(DictGet(o, "amount")),
     balance |-> json_float(DictGet(o, "balance")),
     date |-> DictGet(o, "date")]

json_dump_member(m) ==
    IF m[1] = "balance" THEN <<m[1], json_number(m[2])>>
    ELSE IF m[1] = "transactions"
    THEN <<m[1], [i \in 1..Len(m[2]) |-> json_dump_transaction(m[2][i])]>>
    ELSE m

json_load_member(m) ==
    IF m[1] = "balance" THEN <<m[1], json_float(m[2])>>
    ELSE IF m[1] = "transactions"
    THEN <<m[1], [i \in 1..Len(m[2]) |-> json_load_transaction(m[2][i])]>>
    ELSE m

\* data: dict of account number -> get_details() dict.
json_dump(data) ==
    [i \in 1..Len(data) |->
        <<data[i][1], [j \in 1..Len(data[i][2]) |-> json_dump_member(data[i][2][j])]>>]

json_load(text) ==
    [i \in 1..Len(text) |->
        <<text[i][1], [j \in 1..Len(text[i][2]) |-> json_load_member(text[i][2][j])]>>]

(***************************************************************************)
(* The data file: absent, holding a JSON document, or holding what a       *)
(* failed write left behind (no JSON document).                            *)
(***************************************************************************)
NoFile == [state |-> "absent", text |-> <<>>]
JsonFile(text) == [state |-> "json", text |-> text]
TruncatedFile == [state |-> "garbage", text |-> <<>>]

(***************************************************************************)
(* class BankManagementSystem                                              *)
(***************************************************************************)
LoadFields == <<"account_number", "name", "pin", "balance", "account_type",
                "creation_date", "transactions">>

\* The loop of load_data from entry i on; a missing field raises KeyError,
\* which ends the loop with the accounts read so far.
RECURSIVE load_entries(_, _, _)
load_entries(data, i, accounts) ==
    IF i > Len(data) THEN accounts
    ELSE LET acc_num == data[i][1]
             acc_data == data[i][2]
         IN  IF \E f \in 1..Len(LoadFields) : ~DictHas(acc_data, LoadFields[f])
             THEN accounts
             ELSE LET account ==
                         [account_number |-> DictGet(acc_data, "account_number"),
                          name |-> DictGet(acc_data, "name"),
                          pin |-> DictGet(acc_data, "pin"),
                          balance |-> DictGet(acc_data, "balance"),
                          account_type |-> DictGet(acc_data, "account_type"),
                          creation_date |-> DictGet(acc_data, "creation_date"),
                          transactions |-> DictGet(acc_data, "transactions")]
                  IN  load_entries(data, i + 1, DictSet(accounts, acc_num, account))

\* __init__ followed by load_data: the mapping of a directory constructed on
\* the file.
load_data(file) ==
    IF file.state = "absent" THEN <<>>
    ELSE IF file.state = "garbage" THEN <<>>
    ELSE load_entries(json_load(file.text), 1, <<>>)

\* save_data swallows every I/O error: it returns normally in each case.
save_data(accounts, file, io) ==
    LET data == [i \in 1..Len(accounts) |-> <<accounts[i][1], get_details(accounts[i][2])>>]
    IN  IF io = "ok" THEN JsonFile(json_dump(data))
        ELSE IF io = "open_fails" THEN file
        ELSE TruncatedFile

Prefix == <<"A", "C", "C">>

\* generate_account_number that counts the accounts instead of taking the
\* largest suffix.
generate_account_number_count(accounts) ==
    Prefix \o str(1000 + Len(accounts) + 1)

\* generate_account_number without the increment: the largest suffix in use.
generate_account_number_max(accounts) ==
    IF Len(accounts) = 0 THEN Prefix \o <<"1", "0", "0", "1">>
    ELSE LET nums == {int(SubSeq(acc, 4, Len(acc))) : acc \in DictKeys(accounts)}
             last_num == CHOOSE n \in nums : \A m \in nums : m <= n
         IN  Prefix \o str(last_num)

generate_account_number(accounts) ==
    IF Len(accounts) = 0 THEN Prefix \o <<"1", "0", "0", "1">>
    ELSE LET nums == {int(SubSeq(acc, 4, Len(acc))) : acc \in DictKeys(accounts)}
             last_num == CHOOSE n \in nums : \A m \in nums : m <= n
         IN  Prefix \o str(last_num + 1)

\* Result of a directory call: exception, message, returned value (ret holds
\* the value, or nothing when the call raised), and the mapping and file after.
DirResult(exc, msg, ret, accounts, file) ==
    [exc |-> exc, msg |-> msg, ret |-> ret, accounts |-> accounts, file |-> file]

\* create_account that sets the opening balance without logging it.
create_account_unlogged(accounts, file, name, pin, initial_deposit, account_type, now, io) ==
    IF initial_deposit < 0
    THEN DirResult("Exception",
                   "Failed to create account: " \o "Initial deposit cannot be negative",
                   <<>>, accounts, file)
    ELSE LET account_number == generate_account_number(accounts)
             account == Account(account_number, name, pin, initial_deposit,
                                account_type, now)
             accounts1 == DictSet(accounts, account_number, account)
         IN  DirResult("None", "", <<account_number>>, accounts1,
                       save_data(accounts1, file, io))

create_account(accounts, file, name, pin, initial_deposit, account_type, now, io) ==
    IF initial_deposit < 0
    THEN DirResult("Exception",
                   "Failed to create account: " \o "Initial deposit cannot be negative",
                   <<>>, accounts, file)
    ELSE LET account_number == generate_account_number(accounts)
             a0 == Account(account_number, name, pin, initial_deposit, account_type, now)
             account == IF initial_deposit > 0
                        THEN add_transaction(a0, "Initial Deposit", initial_deposit,
                                             initial_deposit, now)
                        ELSE a0
             accounts1 == DictSet(accounts, account_number, account)
         IN  DirResult("None", "", <<account_number>>, accounts1,
                       save_data(accounts1, file, io))

get_account(accounts, account_number, pin) ==
    IF ~DictHas(accounts, account_number)
    THEN [exc |-> "InvalidAccountError", msg |-> "Account not found", ret |-> <<>>]
    ELSE LET account == DictGet(accounts, account_number)
         IN  IF ~verify_pin(account, pin)
             THEN [exc |-> "InvalidPINError", msg |-> "Incorrect PIN", ret |-> <<>>]
             ELSE [exc |-> "None", msg |-> "", ret |-> <<account>>]

delete_account(accounts, file, account_number, pin, io) ==
    LET got == get_account(accounts, account_number, pin)
    IN  IF got.exc # "None"
        THEN DirResult(got.exc, got.msg, <<>>, accounts, file)
        ELSE LET accounts1 == DictDel(accounts, account_number)
             IN  DirResult("None", "", <<>>, accounts1, save_data(accounts1, file, io))

(***************************************************************************)
(* class BankUI: the text shell.  A line the user types is a sequence of   *)
(* characters.  Each menu handler is an operator from the directory, the   *)
(* file, the account the menu holds (its identifier in the mapping) and    *)
(* the lines typed to the result: what is printed last (out), the mapping  *)
(* and the file afterwards, and what the handler returns (ret).            *)
(***************************************************************************)
RECURSIVE lstrip(_)
lstrip(s) == IF Len(s) > 0 /\ s[1] = " " THEN lstrip(Tail(s)) ELSE s

RECURSIVE rstrip(_)
rstrip(s) == IF Len(s) > 0 /\ s[Len(s)] = " " THEN rstrip(SubSeq(s, 1, Len(s) - 1)) ELSE s

\* str.strip()
strip(s) == rstrip(lstrip(s))

\* str.lower() of a one-letter answer.
lower(s) == IF s = <<"Y">> THEN <<"y">> ELSE s

FloatError == [ok |-> FALSE, value |-> 0]

\* The float nearest to the numeral w.f, w and f being its digits before
\* and after the point.
decimal(w, f) ==
    IF (w = <<>> /\ f = <<>>) \/ (w # <<>> /\ ~isdigit(w)) \/ (f # <<>> /\ ~isdigit(f))
    THEN FloatError
    ELSE [ok |-> TRUE, value |-> Whole(int(w)) + RoundDiv(int(f) * Unit, 10 ^ Len(f))]

\* The float of an unsigned numeral u: digits with at most one point.
unsigned(u) ==
    LET dots == {i \in 1..Len(u) : u[i] = "."}
    IN  IF dots = {} THEN decimal(u, <<>>)
        ELSE IF Cardinality(dots) > 1 THEN FloatError
        ELSE decimal(SubSeq(u, 1, (CHOOSE i \in dots : TRUE) - 1),
                     SubSeq(u, (CHOOSE i \in dots : TRUE) + 1, Len(u)))

negated(x) == [x EXCEPT !.value = 0 - @]

\* float(s) of a decimal numeral with an optional minus sign and an
\* optional fraction, blanks around it ignored: the nearest float, or
\* ValueError (ok = FALSE).
float(s) ==
    IF strip(s) # <<>> /\ strip(s)[1] = "-"
    THEN negated(unsigned(Tail(strip(s))))
    ELSE unsigned(strip(s))

\* saved: the handler reached its save (its own save_data call, or the one
\* inside create_account and delete_account).
ShellResult(out, accounts, file, ret, saved) ==
    [out |-> out, accounts |-> accounts, file |-> file, ret |-> ret, saved |-> saved]

create_account_menu(accounts, file, name_line, pin_line, type_line, deposit_line, now, io) ==
    LET name == strip(name_line)
        pin == strip(pin_line)
        account_type == IF strip(type_line) = <<>> THEN "Savings" ELSE strip(type_line)
        initial_deposit == IF deposit_line = <<>> THEN [ok |-> TRUE, value |-> 0]
                           ELSE float(deposit_line)
    IN  IF name = <<>>
        THEN ShellResult("Invalid input: Name cannot be empty", accounts, file, <<>>, FALSE)
        ELSE IF Len(pin) # 4 \/ ~isdigit(pin)
        THEN ShellResult("Invalid input: PIN must be 4 digits", accounts, file, <<>>, FALSE)
        ELSE IF ~initial_deposit.ok
        THEN ShellResult("Invalid input: could not convert string to float",
                         accounts, file, <<>>, FALSE)
        ELSE LET r == create_account(accounts, file, name, pin, initial_deposit.value,
                                     account_type, now, io)
             IN  IF r.exc # "None"
                 THEN ShellResult("Error: " \o r.msg, accounts, file, <<>>, FALSE)
                 ELSE ShellResult("Account created successfully!", r.accounts, r.file, r.ret, TRUE)

\* ret: the identifier of the account account_menu is entered with, if any.
login_menu(accounts, number_line, pin_line) ==
    LET r == get_account(accounts, strip(number_line), strip(pin_line))
    IN  IF r.exc # "None"
        THEN [out |-> "Login failed: " \o r.msg, ret |-> <<>>]
        ELSE [out |-> "Login successful!", ret |-> <<r.ret[1].account_number>>]

\* deposit_menu that returns to the menu without saving.
deposit_menu_unsaved(accounts, file, account, line, now, io) ==
    LET amount == float(line)
    IN  IF ~amount.ok
        THEN ShellResult("Invalid amount entered", accounts, file, <<>>, FALSE)
        ELSE LET r == deposit(DictGet(accounts, account), amount.value, now)
                 accounts1 == DictSet(accounts, account, r.self)
             IN  IF r.exc # "None"
                 THEN ShellResult("Error: " \o r.msg, accounts, file, <<>>, FALSE)
                 ELSE ShellResult("deposited successfully", accounts1, file, <<>>, TRUE)

deposit_menu(accounts, file, account, line, now, io) ==
    LET amount == float(line)
    IN  IF ~amount.ok
        THEN ShellResult("Invalid amount entered", accounts, file, <<>>, FALSE)
        ELSE LET r == deposit(DictGet(accounts, account), amount.value, now)
                 accounts1 == DictSet(accounts, account, r.self)
             IN  IF r.exc # "None"
                 THEN ShellResult("Error: " \o r.msg, accounts, file, <<>>, FALSE)
                 ELSE ShellResult("deposited successfully", accounts1,
                                  save_data(accounts1, file, io), <<>>, TRUE)

withdraw_menu(accounts, file, account, line, now, io) ==
    LET amount == float(line)
    IN  IF ~amount.ok
        THEN ShellResult("Invalid amount entered", accounts, file, <<>>, FALSE)
        ELSE LET r == withdraw(DictGet(accounts, account), amount.value, now)
                 accounts1 == DictSet(accounts, account, r.self)
             IN  IF r.exc # "None"
                 THEN ShellResult("Error: " \o r.msg, accounts, file, <<>>, FALSE)
                 ELSE ShellResult("withdrawn successfully", accounts1,
                                  save_data(accounts1, file, io), <<>>, TRUE)

calculate_interest_menu(accounts, file, account, rate_line, add_line, now, io) ==
    LET rate == IF rate_line = <<>> THEN [ok |-> TRUE, value |-> Halves(7)]
                ELSE float(rate_line)
    IN  IF ~rate.ok
        THEN ShellResult("Invalid rate entered", accounts, file, <<>>, FALSE)
        ELSE IF lower(add_line) # <<"y">>
        THEN ShellResult("Calculated Interest: "
                            \o Format2f(calculate_interest(DictGet(accounts, account),
                                                           rate.value)),
                         accounts, file, <<>>, FALSE)
        ELSE LET r == add_interest(DictGet(accounts, account), rate.value, now)
                 accounts1 == DictSet(accounts, account, r.self)
             IN  ShellResult("Interest added successfully", accounts1,
                             save_data(accounts1, file, io), <<>>, TRUE)

\* update_pin_menu with the check of the new PIN's format left out.
update_pin_menu_any_format(accounts, file, account, old_line, new_line, confirm_line, io) ==
    LET old_pin == strip(old_line)
        new_pin == strip(new_line)
        confirm_pin == strip(confirm_line)
    IN  IF ~verify_pin(DictGet(accounts, account), old_pin)
        THEN ShellResult("Error: Incorrect current PIN", accounts, file, <<>>, FALSE)
        ELSE IF new_pin # confirm_pin
        THEN ShellResult("Error: PINs don't match", accounts, file, <<>>, FALSE)
        ELSE LET accounts1 == DictSet(accounts, account,
                                      update_pin(DictGet(accounts, account), new_pin))
             IN  ShellResult("PIN updated successfully", accounts1,
                             save_data(accounts1, file, io), <<>>, TRUE)

update_pin_menu(accounts, file, account, old_line, new_line, confirm_line, io) ==
    LET old_pin == strip(old_line)
        new_pin == strip(new_line)
        confirm_pin == strip(confirm_line)
    IN  IF ~verify_pin(DictGet(accounts, account), old_pin)
        THEN ShellResult("Error: Incorrect current PIN", accounts, file, <<>>, FALSE)
        ELSE IF Len(new_pin) # 4 \/ ~isdigit(new_pin)
        THEN ShellResult("Error: PIN must be 4 digits", accounts, file, <<>>, FALSE)
        ELSE IF new_pin # confirm_pin
        THEN ShellResult("Error: PINs don't match", accounts, file, <<>>, FALSE)
        ELSE LET accounts1 == DictSet(accounts, account,
                                      update_pin(DictGet(accounts, account), new_pin))
             IN  ShellResult("PIN updated successfully", accounts1,
                             save_data(accounts1, file, io), <<>>, TRUE)

\* delete_account_menu that returns False after a deletion as well.
delete_account_menu_stays(accounts, file, account, confirm_line, pin_line, io) ==
    IF strip(confirm_line) # <<"D", "E", "L", "E", "T", "E">>
    THEN ShellResult("Account deletion cancelled", accounts, file, <<FALSE>>, FALSE)
    ELSE LET r == delete_account(accounts, file,
                                 DictGet(accounts, account).account_number,
                                 strip(pin_line), io)
         IN  IF r.exc # "None"
             THEN ShellResult("Error: " \o r.msg, accounts, file, <<FALSE>>, FALSE)
             ELSE ShellResult("Account deleted successfully", r.accounts, r.file,
                              <<FALSE>>, TRUE)

\* ret: <<TRUE>> when the account was deleted, <<FALSE>> otherwise.
delete_account_menu(accounts, file, account, confirm_line, pin_line, io) ==
    IF strip(confirm_line) # <<"D", "E", "L", "E", "T", "E">>
    THEN ShellResult("Account deletion cancelled", accounts, file, <<FALSE>>, FALSE)
    ELSE LET r == delete_account(accounts, file,
                                 DictGet(accounts, account).account_number,
                                 strip(pin_line), io)
         IN  IF r.exc # "None"
             THEN ShellResult("Error: " \o r.msg, accounts, file, <<FALSE>>, FALSE)
             ELSE ShellResult("Account deleted successfully", r.accounts, r.file, <<TRUE>>, TRUE)

(***************************************************************************)
(* State.                                                                  *)
(*   accounts  the directory's mapping (self.accounts)                     *)
(*   file      the data file bank_data.json                                *)
(*   now       the wall clock, in seconds                                  *)
(*   call      the call on the core that has just returned or raised, with *)
(*             its arguments and outcome, until the caller has taken the   *)
(*             result (NoCall: the caller is between calls)                *)
(*   pre       the mapping, the file and the issued identifiers as they    *)
(*             were when that call was made                                *)
(*   issued    the identifiers create_account has returned on this         *)
(*             directory object so far                                     *)
(*   unsaved   the number of changes made to the mapping or its accounts   *)
(*             since the file was last written or read successfully        *)
(*   ui        the menu the text shell (BankUI) is showing; a program that *)
(*             calls the core directly leaves it at the main menu          *)
(***************************************************************************)
VARIABLES accounts, file, now, call, pre, issued, unsaved, ui

vars == <<accounts, file, now, call, pre, issued, unsaved, ui>>

NoCall ==
    [op |-> "none", key |-> <<>>, pin |-> <<>>, name |-> "", atype |-> "",
     amount |-> 0, io |-> "", exc |-> "None", msg |-> "",
     retId |-> <<>>, retAcct |-> <<>>, retNum |-> 0,
     new_pin |-> <<>>, confirm |-> <<>>, line |-> <<>>, answer |-> <<>>,
     out |-> "", ret |-> <<>>]

\* Where the text shell is: at the main menu, or in the account menu of the
\* account it obtained at login (account: the identifier of that account).
MainMenu == [screen |-> "main", account |-> <<>>]
AccountMenu(account_number) == [screen |-> "account", account |-> <<account_number>>]

NoPre == [accounts |-> <<>>, file |-> NoFile, issued |-> {}, ui |-> MainMenu]

Snapshot == [accounts |-> accounts, file |-> file, issued |-> issued, ui |-> ui]

Idle == call.op = "none"

TotalTx(accs) ==
    LET RECURSIVE Sum(_)
        Sum(i) == IF i = 0 THEN 0 ELSE Sum(i - 1) + Len(accs[i][2].transactions)
    IN  Sum(Len(accs))

\* Identifiers a caller may name: every identifier the directory can hold
\* within the bounds, so present and absent ones.
KeyInputs == {Prefix \o str(1000 + n) : n \in 1..MaxIds}

\* unsaved after a call that changed the mapping (changed) and then saved
\* with outcome io.
AfterSave(changed, io) ==
    IF ~changed THEN unsaved
    ELSE IF io = "ok" THEN 0
    ELSE unsaved + 1

\* BankManagementSystem() where no data file exists.
Init ==
    /\ file = NoFile
    /\ accounts = load_data(NoFile)
    /\ now = 0
    /\ call = NoCall
    /\ pre = NoPre
    /\ issued = {}
    /\ unsaved = 0
    /\ ui = MainMenu

CreateAccount(S) ==
    /\ Idle
    /\ \E name \in S.names, pin \in S.pins, d \in S.deposits,
          t \in S.types, io \in S.io :
        LET r == create_account(accounts, file, name, pin, d, t, now, io)
        IN  /\ r.exc # "None" => io = "ok"
            /\ r.exc = "None" => /\ Len(accounts) < S.maxAccounts
                                 /\ r.ret[1] \in KeyInputs
                                 /\ io # "ok" => unsaved < MaxUnsaved
            /\ unsaved' = AfterSave(r.exc = "None", io)
            /\ accounts' = r.accounts
            /\ file' = r.file
            /\ issued' = IF r.exc = "None" THEN issued \cup {r.ret[1]} ELSE issued
            /\ call' = [NoCall EXCEPT !.op = "create_account", !.name = name,
                                      !.pin = pin, !.amount = d, !.atype = t,
                                      !.io = IF r.exc = "None" THEN io ELSE "",
                                      !.exc = r.exc, !.msg = r.msg, !.retId = r.ret]
            /\ pre' = Snapshot
            /\ UNCHANGED <<now, ui>>

GetAccount(S) ==
    /\ Idle
    /\ \E k \in KeyInputs, pin \in S.pins :
        LET r == get_account(accounts, k, pin)
        IN  /\ call' = [NoCall EXCEPT !.op = "get_account", !.key = k, !.pin = pin,
                                      !.exc = r.exc, !.msg = r.msg, !.retAcct = r.ret]
            /\ pre' = Snapshot
            /\ UNCHANGED <<accounts, file, now, issued, unsaved, ui>>

DeleteAccount(S) ==
    /\ Idle
    /\ \E k \in KeyInputs, pin \in S.pins, io \in S.io :
        LET r == delete_account(accounts, file, k, pin, io)
        IN  /\ r.exc # "None" => io = "ok"
            /\ (r.exc = "None" /\ io # "ok") => unsaved < MaxUnsaved
            /\ unsaved' = AfterSave(r.exc = "None", io)
            /\ accounts' = r.accounts
            /\ file' = r.file
            /\ call' = [NoCall EXCEPT !.op = "delete_account", !.key = k, !.pin = pin,
                                      !.io = IF r.exc = "None" THEN io ELSE "",
                                      !.exc = r.exc, !.msg = r.msg]
            /\ pre' = Snapshot
            /\ UNCHANGED <<now, issued, ui>>

\* A call of a method of the Account object stored under k, made by a
\* caller that holds the reference.
Deposit(S) ==
    /\ Idle
    /\ \E k \in DictKeys(accounts), a \in S.amounts :
        LET r == deposit(DictGet(accounts, k), a, now)
        IN  /\ r.exc = "None" => (TotalTx(accounts) < S.maxTx /\ unsaved < MaxUnsaved)
            /\ unsaved' = IF r.exc = "None" THEN unsaved + 1 ELSE unsaved
            /\ accounts' = DictSet(accounts, k, r.self)
            /\ call' = [NoCall EXCEPT !.op = "deposit", !.key = k, !.amount = a,
                                      !.exc = r.exc, !.msg = r.msg]
            /\ pre' = Snapshot
            /\ UNCHANGED <<file, now, issued, ui>>

Withdraw(S) ==
    /\ Idle
    /\ \E k \in DictKeys(accounts), a \in S.amounts :
        LET r == withdraw(DictGet(accounts, k), a, now)
        IN  /\ r.exc = "None" => (TotalTx(accounts) < S.maxTx /\ unsaved < MaxUnsaved)
            /\ unsaved' = IF r.exc = "None" THEN unsaved + 1 ELSE unsaved
            /\ accounts' = DictSet(accounts, k, r.self)
            /\ call' = [NoCall EXCEPT !.op = "withdraw", !.key = k, !.amount = a,
                                      !.exc = r.exc, !.msg = r.msg]
            /\ pre' = Snapshot
            /\ UNCHANGED <<file, now, issued, ui>>

CalculateInterest(S) ==
    /\ Idle
    /\ \E k \in DictKeys(accounts), rate \in S.rates :
        /\ call' = [NoCall EXCEPT !.op = "calculate_interest", !.key = k,
                                  !.amount = rate,
                                  !.retNum = calculate_interest(DictGet(accounts, k), rate)]
        /\ pre' = Snapshot
        /\ UNCHANGED <<accounts, file, now, issued, unsaved, ui>>

AddInterest(S) ==
    /\ Idle
    /\ \E k \in DictKeys(accounts), rate \in S.rates :
        LET r == add_interest(DictGet(accounts, k), rate, now)
        IN  /\ TotalTx(accounts) < S.maxTx
            /\ unsaved < MaxUnsaved
            /\ unsaved' = unsaved + 1
            /\ accounts' = DictSet(accounts, k, r.self)
            /\ call' = [NoCall EXCEPT !.op = "add_interest", !.key = k,
                                      !.amount = rate, !.exc = r.exc, !.msg = r.msg]
            /\ pre' = Snapshot
            /\ UNCHANGED <<file, now, issued, ui>>

UpdatePin(S) ==
    /\ Idle
    /\ \E k \in DictKeys(accounts), new_pin \in S.pins :
        /\ unsaved < MaxUnsaved
        /\ unsaved' = unsaved + 1
        /\ accounts' = DictSet(accounts, k, update_pin(DictGet(accounts, k), new_pin))
        /\ call' = [NoCall EXCEPT !.op = "update_pin", !.key = k, !.pin = new_pin]
        /\ pre' = Snapshot
        /\ UNCHANGED <<file, now, issued, ui>>

SaveData(S) ==
    /\ Idle
    /\ \E io \in S.io :
        /\ file' = save_data(accounts, file, io)
        /\ unsaved' = IF io = "ok" THEN 0 ELSE unsaved
        /\ call' = [NoCall EXCEPT !.op = "save_data", !.io = io]
        /\ pre' = Snapshot
        /\ UNCHANGED <<accounts, now, issued, ui>>

\* A call of generate_account_number by itself.
GenerateAccountNumber ==
    /\ Idle
    /\ call' = [NoCall EXCEPT !.op = "generate_account_number",
                              !.retId = <<generate_account_number(accounts)>>]
    /\ pre' = Snapshot
    /\ UNCHANGED <<accounts, file, now, issued, unsaved, ui>>

\* Between two sessions the data file is changed from outside the program
\* (edited, or written by another version): one record of the document
\* loses one of its fields.  The next session then starts on that file.
DamageFile ==
    /\ Idle
    /\ file.state = "json"
    /\ \E i \in 1..Len(file.text), f \in DamagedFields :
        /\ DictHas(file.text[i][2], f)
        /\ file' = JsonFile([file.text EXCEPT ![i][2] = DictDel(@, f)])
    /\ call' = [NoCall EXCEPT !.op = "session_over"]
    /\ pre' = Snapshot
    /\ UNCHANGED <<accounts, now, issued, unsaved, ui>>

\* A new session: BankManagementSystem() constructed on the data file.
NewDirectory ==
    /\ Idle \/ call.op = "session_over"
    /\ accounts' = load_data(file)
    /\ issued' = {}
    /\ unsaved' = 0
    /\ call' = [NoCall EXCEPT !.op = "load_data"]
    /\ pre' = Snapshot
    /\ UNCHANGED <<file, now, ui>>

\* The caller takes the result of the call and goes on.
Return ==
    /\ ~Idle
    /\ call.op # "session_over"
    /\ call' = NoCall
    /\ pre' = NoPre
    /\ UNCHANGED <<accounts, file, now, issued, unsaved, ui>>

Tick ==
    /\ Idle
    /\ now < MaxClock
    /\ now' = now + 1
    /\ UNCHANGED <<accounts, file, call, pre, issued, unsaved, ui>>

(***************************************************************************)
(* The text shell.  Each action is one menu choice carried through: the    *)
(* lines are typed, the handler runs to its end, and the shell is back at  *)
(* a prompt once the result is taken (Return).  The choices of the main    *)
(* menu are enabled at the main menu, those of the account menu in the     *)
(* account menu, on the account the menu was entered with.                 *)
(***************************************************************************)
\* The lines typed at the login prompt for the account number.
NumberLines == {k \o <<" ">> : k \in KeyInputs}

ShellScope ==
    [name_lines |-> NameLines, pin_lines |-> PinLines, type_lines |-> TypeLines,
     deposit_lines |-> DepositLines, amount_lines |-> AmountLines,
     rate_lines |-> RateLines, answers |-> Answers, confirms |-> Confirms,
     number_lines |-> NumberLines, io |-> {"ok", "open_fails"},
     maxAccounts |-> ShellMaxAccounts, maxTx |-> ShellMaxTx]

SavedShellScope == [ShellScope EXCEPT !.io = {"ok"}, !.maxTx = SavedShellMaxTx]

AtMainMenu == Idle /\ ui.screen = "main"

AtAccountMenu == Idle /\ ui.screen = "account"

\* Main menu, choice 1.
CreateAccountMenu(S) ==
    /\ AtMainMenu
    /\ \E name_line \in S.name_lines, pin_line \in S.pin_lines,
          type_line \in S.type_lines, deposit_line \in S.deposit_lines, io \in S.io :
        LET r == create_account_menu(accounts, file, name_line, pin_line, type_line,
                                     deposit_line, now, io)
        IN  /\ ~r.saved => io = "ok"
            /\ r.saved => /\ Len(accounts) < S.maxAccounts
                          /\ r.ret[1] \in KeyInputs
                          /\ io # "ok" => unsaved < MaxUnsaved
            /\ unsaved' = AfterSave(r.saved, io)
            /\ accounts' = r.accounts
            /\ file' = r.file
            /\ issued' = issued \cup {r.ret[i] : i \in 1..Len(r.ret)}
            /\ call' = [NoCall EXCEPT !.op = "create_account_menu", !.pin = pin_line,
                                      !.io = IF r.saved THEN io ELSE "",
                                      !.out = r.out, !.retId = r.ret]
            /\ pre' = Snapshot
            /\ UNCHANGED <<now, ui>>

\* Main menu, choice 2: a successful login enters the account menu.
LoginMenu(S) ==
    /\ AtMainMenu
    /\ \E number_line \in S.number_lines, pin_line \in S.pin_lines :
        LET r == login_menu(accounts, number_line, pin_line)
        IN  /\ ui' = IF r.ret = <<>> THEN ui ELSE AccountMenu(r.ret[1])
            /\ call' = [NoCall EXCEPT !.op = "login_menu", !.line = number_line,
                                      !.pin = pin_line, !.out = r.out, !.retId = r.ret]
            /\ pre' = Snapshot
            /\ UNCHANGED <<accounts, file, now, issued, unsaved>>

\* Main menu, choice 3: every account is printed and nothing is changed.
AdminView ==
    /\ AtMainMenu
    /\ call' = [NoCall EXCEPT !.op = "admin_view"]
    /\ pre' = Snapshot
    /\ UNCHANGED <<accounts, file, now, issued, unsaved, ui>>

\* Account menu, choice 1.
DepositMenu(S) ==
    /\ AtAccountMenu
    /\ \E line \in S.amount_lines, io \in S.io :
        LET r == deposit_menu(accounts, file, ui.account[1], line, now, io)
        IN  /\ ~r.saved => io = "ok"
            /\ r.saved => /\ TotalTx(accounts) < S.maxTx
                          /\ io # "ok" => unsaved < MaxUnsaved
            /\ unsaved' = AfterSave(r.saved, io)
            /\ accounts' = r.accounts
            /\ file' = r.file
            /\ call' = [NoCall EXCEPT !.op = "deposit_menu", !.key = ui.account[1],
                                      !.line = line, !.out = r.out,
                                      !.io = IF r.saved THEN io ELSE ""]
            /\ pre' = Snapshot
            /\ UNCHANGED <<now, issued, ui>>

\* Account menu, choice 2.
WithdrawMenu(S) ==
    /\ AtAccountMenu
    /\ \E line \in S.amount_lines, io \in S.io :
        LET r == withdraw_menu(accounts, file, ui.account[1], line, now, io)
        IN  /\ ~r.saved => io = "ok"
            /\ r.saved => /\ TotalTx(accounts) < S.maxTx
                          /\ io # "ok" => unsaved < MaxUnsaved
            /\ unsaved' = AfterSave(r.saved, io)
            /\ accounts' = r.accounts
            /\ file' = r.file
            /\ call' = [NoCall EXCEPT !.op = "withdraw_menu", !.key = ui.account[1],
                                      !.line = line, !.out = r.out,
                                      !.io = IF r.saved THEN io ELSE ""]
            /\ pre' = Snapshot
            /\ UNCHANGED <<now, issued, ui>>

\* Account menu, choices 3, 4 and 5 (check_balance, view_account_details,
\* view_transaction_history): the account is printed and nothing is changed.
ViewAccount ==
    /\ AtAccountMenu
    /\ call' = [NoCall EXCEPT !.op = "view_account", !.key = ui.account[1],
                              !.retAcct = <<DictGet(accounts, ui.account[1])>>]
    /\ pre' = Snapshot
    /\ UNCHANGED <<accounts, file, now, issued, unsaved, ui>>

\* Account menu, choice 6.
CalculateInterestMenu(S) ==
    /\ AtAccountMenu
    /\ \E rate_line \in S.rate_lines, add_line \in S.answers, io \in S.io :
        LET r == calculate_interest_menu(accounts, file, ui.account[1], rate_line,
                                         add_line, now, io)
        IN  /\ ~r.saved => io = "ok"
            /\ r.saved => /\ TotalTx(accounts) < S.maxTx
                          /\ io # "ok" => unsaved < MaxUnsaved
            /\ unsaved' = AfterSave(r.saved, io)
            /\ accounts' = r.accounts
            /\ file' = r.file
            /\ call' = [NoCall EXCEPT !.op = "calculate_interest_menu",
                                      !.key = ui.account[1], !.line = rate_line,
                                      !.answer = add_line, !.out = r.out,
                                      !.io = IF r.saved THEN io ELSE ""]
            /\ pre' = Snapshot
            /\ UNCHANGED <<now, issued, ui>>

\* Account menu, choice 7.
UpdatePinMenu(S) ==
    /\ AtAccountMenu
    /\ \E old_line \in S.pin_lines, new_line \in S.pin_lines,
          confirm_line \in S.pin_lines, io \in S.io :
        LET r == update_pin_menu(accounts, file, ui.account[1], old_line, new_line,
                                 confirm_line, io)
        IN  /\ ~r.saved => io = "ok"
            /\ (r.saved /\ io # "ok") => unsaved < MaxUnsaved
            /\ unsaved' = AfterSave(r.saved, io)
            /\ accounts' = r.accounts
            /\ file' = r.file
            /\ call' = [NoCall EXCEPT !.op = "update_pin_menu", !.key = ui.account[1],
                                      !.pin = old_line, !.new_pin = new_line,
                                      !.confirm = confirm_line, !.out = r.out,
                                      !.io = IF r.saved THEN io ELSE ""]
            /\ pre' = Snapshot
            /\ UNCHANGED <<now, issued, ui>>

\* Account menu, choice 8: the menu's loop is left when the handler returns
\* True.
DeleteAccountMenu(S) ==
    /\ AtAccountMenu
    /\ \E confirm_line \in S.confirms, pin_line \in S.pin_lines, io \in S.io :
        LET r == delete_account_menu(accounts, file, ui.account[1], confirm_line,
                                     pin_line, io)
        IN  /\ ~r.saved => io = "ok"
            /\ (r.saved /\ io # "ok") => unsaved < MaxUnsaved
            /\ unsaved' = AfterSave(r.saved, io)
            /\ accounts' = r.accounts
            /\ file' = r.file
            /\ ui' = IF r.ret = <<TRUE>> THEN MainMenu ELSE ui
            /\ call' = [NoCall EXCEPT !.op = "delete_account_menu",
                                      !.key = ui.account[1], !.confirm = confirm_line,
                                      !.pin = pin_line, !.out = r.out, !.ret = r.ret,
                                      !.io = IF r.saved THEN io ELSE ""]
            /\ pre' = Snapshot
            /\ UNCHANGED <<now, issued>>

\* Account menu, choice 9.
Logout ==
    /\ AtAccountMenu
    /\ ui' = MainMenu
    /\ call' = [NoCall EXCEPT !.op = "logout", !.key = ui.account[1]]
    /\ pre' = Snapshot
    /\ UNCHANGED <<accounts, file, now, issued, unsaved>>

\* The program ends at a prompt (choice 4 of the main menu, or the process
\* is stopped) and is started again: BankUI() constructs its directory on
\* the data file and shows the main menu.
NewShell ==
    /\ Idle
    /\ accounts' = load_data(file)
    /\ issued' = {}
    /\ unsaved' = 0
    /\ ui' = MainMenu
    /\ call' = [NoCall EXCEPT !.op = "BankUI"]
    /\ pre' = Snapshot
    /\ UNCHANGED <<file, now>>

Next(S) ==
    \/ CreateAccount(S)
    \/ GetAccount(S)
    \/ DeleteAccount(S)
    \/ Deposit(S)
    \/ Withdraw(S)
    \/ CalculateInterest(S)
    \/ AddInterest(S)
    \/ UpdatePin(S)
    \/ SaveData(S)
    \/ GenerateAccountNumber
    \/ DamageFile
    \/ NewDirectory
    \/ Return
    \/ Tick

Spec == Init /\ [][Next(DirectoryScope)]_vars

SpecLedger == Init /\ [][Next(LedgerScope)]_vars

SpecFrame == Init /\ [][Next(FrameScope)]_vars

\* The clock stands still in the shell: no handler's outcome depends on the
\* time, which only stamps the records it writes.
ShellNext(S) ==
    \/ CreateAccountMenu(S)
    \/ LoginMenu(S)
    \/ AdminView
    \/ DepositMenu(S)
    \/ WithdrawMenu(S)
    \/ ViewAccount
    \/ CalculateInterestMenu(S)
    \/ UpdatePinMenu(S)
    \/ DeleteAccountMenu(S)
    \/ Logout
    \/ NewShell
    \/ Return

\* The shell with saves that may fail, and the shell where every save
\* succeeds.
SpecShell == Init /\ [][ShellNext(ShellScope)]_vars

SpecShellSaved == Init /\ [][ShellNext(SavedShellScope)]_vars


(***************************************************************************)
(* Properties.  While a call's result is held (call.op names the call),    *)
(* pre is the state the call was made in, so a postcondition of the call   *)
(* is a predicate on one state.                                            *)
(***************************************************************************)
AllAccounts == {accounts[i][2] : i \in 1..Len(accounts)}

\* The account a call was made on, before and after the call.
Before == DictGet(pre.accounts, call.key)
After == DictGet(accounts, call.key)

\* The balance obtained by replaying the first n records of a log from 0.
RECURSIVE Replay(_, _)
Replay(log, n) ==
    IF n = 0 THEN 0
    ELSE IF log[n].type \in {"Initial Deposit", "Deposit", "Interest Credit"}
    THEN Replay(log, n - 1) + log[n].amount
    ELSE IF log[n].type = "Withdrawal"
    THEN Replay(log, n - 1) - log[n].amount
    ELSE Replay(log, n - 1)

\* Two mappings hold the same identifiers with equal accounts.
SameMapping(a, b) ==
    /\ DictKeys(a) = DictKeys(b)
    /\ Len(a) = Len(b)
    /\ \A k \in DictKeys(a) : DictGet(a, k) = DictGet(b, k)

\* A well-formed PIN: exactly four decimal digits.
ValidPin(pin) == Len(pin) = 4 /\ isdigit(pin)

\* C1: every account's balance is >= 0 in every state reached by create
\* (deposit >= 0), deposit, withdraw and add_interest calls the core
\* accepts, and no withdraw call with amount > balance succeeds.
C1_BalanceNeverNegative ==
    /\ \A a \in AllAccounts : a.balance >= 0
    /\ (call.op = "withdraw" /\ call.amount > Before.balance) => call.exc # "None"

\* C2: for every account in every state, replaying its transaction log
\* from balance 0 (adding Initial Deposit, Deposit and Interest Credit
\* amounts, subtracting Withdrawal amounts, in log order) gives exactly the
\* stored balance.
C2_ReplayGivesBalance ==
    \A a \in AllAccounts : Replay(a.transactions, Len(a.transactions)) = a.balance

C2_Witness ==
    \E a \in AllAccounts :
        /\ \E i \in 1..Len(a.transactions) : a.transactions[i].type = "Withdrawal"
        /\ \E i \in 1..Len(a.transactions) :
              /\ a.transactions[i].type = "Interest Credit"
              /\ a.transactions[i].amount # 0
        /\ a.transactions[1].type = "Initial Deposit"

\* C3: a deposit or withdraw call with amount <= 0 fails with
\* InvalidAmountError, and the account's balance and transaction log after
\* the call equal those before it.
C3_NonPositiveAmountRejected ==
    (call.op \in {"deposit", "withdraw"} /\ call.amount <= 0) =>
        /\ call.exc = "InvalidAmountError"
        /\ After.balance = Before.balance
        /\ After.transactions = Before.transactions

C3_Witness ==
    /\ call.op = "deposit"
    /\ call.amount = 0
    /\ call.exc = "InvalidAmountError"
    /\ Before.balance > 0
    /\ Before.transactions # <<>>

\* C4: a withdraw call with amount > 0 and amount > balance fails with
\* InsufficientBalanceError whose message carries the balance, leaving
\* balance and log unchanged; a withdraw call with 0 < amount <= balance
\* succeeds, lowers the balance by exactly amount and appends exactly one
\* Withdrawal record whose balance field is the new balance.
C4_WithdrawOutcomes ==
    (call.op = "withdraw" /\ call.amount > 0) =>
        IF call.amount > Before.balance
        THEN /\ call.exc = "InsufficientBalanceError"
             /\ call.msg = "Insufficient balance. Available: ₹" \o Format2f(Before.balance)
             /\ After.balance = Before.balance
             /\ After.transactions = Before.transactions
        ELSE /\ call.exc = "None"
             /\ After.balance = Before.balance - call.amount
             /\ Len(After.transactions) = Len(Before.transactions) + 1
             /\ SubSeq(After.transactions, 1, Len(Before.transactions)) = Before.transactions
             /\ LET t == After.transactions[Len(After.transactions)]
                IN  /\ t.type = "Withdrawal"
                    /\ t.amount = call.amount
                    /\ t.balance = After.balance

\* An insufficient withdrawal refused on an account that an earlier
\* withdrawal has already succeeded on.
C4_Witness ==
    /\ call.op = "withdraw"
    /\ call.exc = "InsufficientBalanceError"
    /\ Before.balance > 0
    /\ \E i \in 1..Len(Before.transactions) : Before.transactions[i].type = "Withdrawal"

\* C5: the identifier a create_account call returns differs from the
\* identifier returned by every earlier create_account call on the same
\* directory, those of accounts deleted since included.
C5_IdentifierNeverReused ==
    (call.op = "create_account" /\ call.exc = "None") => call.retId[1] \notin pre.issued

\* C6: a successful create_account overwrites nothing: the returned
\* identifier is not a key of the mapping before the call, the mapping has
\* exactly one more entry afterwards, and every account present before is
\* still present with equal contents.
C6_CreateOverwritesNothing ==
    (call.op = "create_account" /\ call.exc = "None") =>
        /\ ~DictHas(pre.accounts, call.retId[1])
        /\ DictHas(accounts, call.retId[1])
        /\ Len(accounts) = Len(pre.accounts) + 1
        /\ Cardinality(DictKeys(accounts)) = Cardinality(DictKeys(pre.accounts)) + 1
        /\ \A k \in DictKeys(pre.accounts) :
              DictHas(accounts, k) /\ DictGet(accounts, k) = DictGet(pre.accounts, k)

C6_Witness ==
    /\ call.op = "create_account"
    /\ call.exc = "None"
    /\ Len(pre.accounts) = 1
    /\ pre.accounts[1][2].transactions # <<>>

\* C7: get_account(identifier, pin) raises InvalidAccountError when the
\* identifier is not a key of the mapping, raises InvalidPINError when it
\* is a key and pin differs from the stored PIN, and returns the account
\* stored under the identifier when it is a key and pin equals the stored
\* PIN; in all three cases the mapping, its accounts and the file are
\* unchanged.
C7_Authenticate ==
    call.op = "get_account" =>
        /\ accounts = pre.accounts
        /\ file = pre.file
        /\ IF ~DictHas(pre.accounts, call.key)
           THEN call.exc = "InvalidAccountError" /\ call.retAcct = <<>>
           ELSE IF Before.pin # call.pin
           THEN call.exc = "InvalidPINError" /\ call.retAcct = <<>>
           ELSE call.exc = "None" /\ call.retAcct = <<Before>>

C7_Witness ==
    /\ call.op = "get_account"
    /\ call.exc = "InvalidPINError"
    /\ Len(accounts) = 2

\* C8: a successful save followed by constructing a new directory on the
\* file gives a mapping with the same identifiers in which every account
\* has the same fields and the same transaction sequence: the mapping
\* load_data reads from a file just saved equals the mapping saved, and a
\* directory constructed on a file holding a save of the mapping equals
\* that mapping.
C8_RoundTrip ==
    /\ (call.op = "save_data" /\ call.io = "ok") => SameMapping(load_data(file), accounts)
    /\ (call.op = "load_data" /\ pre.file = save_data(pre.accounts, pre.file, "ok")) =>
          SameMapping(accounts, pre.accounts)

C8_Witness ==
    /\ call.op = "load_data"
    /\ pre.file = save_data(pre.accounts, pre.file, "ok")
    /\ \E a \in AllAccounts :
          /\ a.balance % Unit # 0
          /\ Len(a.transactions) >= 2
          /\ \E i \in 1..Len(a.transactions) : a.transactions[i].amount % Unit # 0

\* C9: create_account with initial_deposit < 0 fails with the error kind
\* InvalidAmountError, inserts nothing into the mapping and does not
\* rewrite the file.
C9_NegativeDepositIsInvalidAmount ==
    (call.op = "create_account" /\ call.amount < 0) =>
        /\ call.exc = "InvalidAmountError"
        /\ accounts = pre.accounts
        /\ file = pre.file

\* C10: create_account called with an empty name, or with a PIN that is
\* not exactly four digits, fails and leaves the mapping unchanged.
C10_InvalidHolderRejected ==
    (call.op = "create_account" /\ (call.name = "" \/ ~ValidPin(call.pin))) =>
        /\ call.exc # "None"
        /\ accounts = pre.accounts


\* The data file holds a complete save of the mapping as it is now.
Persisted == file.state = "json" /\ SameMapping(load_data(file), accounts)

\* C11: a successful create_account(name, pin, d, type) inserts under the
\* returned identifier an account with balance d and the given name, pin
\* and type, whose log is exactly one Initial Deposit record with amount d
\* and balance d when d > 0 and is empty when d = 0; the result is
\* persisted, and get_account(returned identifier, pin) returns that
\* account.
C11_CreatePostcondition ==
    (call.op = "create_account" /\ call.exc = "None") =>
        /\ DictHas(accounts, call.retId[1])
        /\ LET a == DictGet(accounts, call.retId[1])
           IN  /\ a.account_number = call.retId[1]
               /\ a.balance = call.amount
               /\ a.name = call.name
               /\ a.pin = call.pin
               /\ a.account_type = call.atype
               /\ IF call.amount > 0
                  THEN /\ Len(a.transactions) = 1
                       /\ a.transactions[1].type = "Initial Deposit"
                       /\ a.transactions[1].amount = call.amount
                       /\ a.transactions[1].balance = call.amount
                  ELSE a.transactions = <<>>
               /\ get_account(accounts, call.retId[1], call.pin) =
                     [exc |-> "None", msg |-> "", ret |-> <<a>>]
        /\ Persisted


\* C12: generate_account_number returns "ACC1001" when the mapping is
\* empty and otherwise "ACC" followed by the largest numeric suffix among
\* the identifiers in the mapping plus one; the result depends on the key
\* set only, and the call changes neither the mapping nor the file.
C12_GenerateIdentifier ==
    call.op = "generate_account_number" =>
        /\ accounts = pre.accounts
        /\ file = pre.file
        /\ LET keys == DictKeys(pre.accounts)
               suffixes == {int(SubSeq(k, 4, Len(k))) : k \in keys}
           IN  IF keys = {}
               THEN call.retId = << <<"A", "C", "C", "1", "0", "0", "1">> >>
               ELSE \E n \in suffixes :
                       /\ \A m \in suffixes : m <= n
                       /\ call.retId = << <<"A", "C", "C">> \o str(n + 1) >>

\* The only identifier in use is ACC1002 (ACC1001 was deleted): ACC1003.
C12_Witness ==
    /\ call.op = "generate_account_number"
    /\ DictKeys(accounts) = {<<"A", "C", "C", "1", "0", "0", "2">>}
    /\ call.retId = << <<"A", "C", "C", "1", "0", "0", "3">> >>


\* C13: delete_account(identifier, pin) raises InvalidAccountError or
\* InvalidPINError under exactly the conditions get_account does and then
\* leaves the mapping and the file unchanged; on success it removes exactly
\* the entry of the identifier, leaves every other entry unchanged and
\* persists the mapping, and get_account on an identifier that is not in
\* the mapping raises InvalidAccountError.
C13_DeleteAccount ==
    /\ call.op = "delete_account" =>
          IF ~DictHas(pre.accounts, call.key)
          THEN /\ call.exc = "InvalidAccountError"
               /\ accounts = pre.accounts
               /\ file = pre.file
          ELSE IF DictGet(pre.accounts, call.key).pin # call.pin
          THEN /\ call.exc = "InvalidPINError"
               /\ accounts = pre.accounts
               /\ file = pre.file
          ELSE /\ call.exc = "None"
               /\ DictKeys(accounts) = DictKeys(pre.accounts) \ {call.key}
               /\ Len(accounts) = Len(pre.accounts) - 1
               /\ \A k \in DictKeys(accounts) :
                     DictGet(accounts, k) = DictGet(pre.accounts, k)
               /\ Persisted
    /\ \A k \in KeyInputs \ DictKeys(accounts), pin \in Pins :
          get_account(accounts, k, pin).exc = "InvalidAccountError"


\* C14: add_interest(rate) raises the balance by exactly
\* calculate_interest(rate) = balance * rate / 100 taken on the balance
\* before the call, and appends exactly one Interest Credit record whose
\* amount is that interest and whose balance is the new balance (balance
\* 150.00 and rate 3.5 give interest 5.25 and balance 155.25);
\* calculate_interest returns that value and changes nothing.
C14_AddInterest ==
    /\ call.op = "add_interest" =>
          LET interest == FDiv(FMul(Before.balance, call.amount), Whole(100))
              n == Len(Before.transactions)
          IN  /\ call.exc = "None"
              /\ After.balance = Before.balance + interest
              /\ Len(After.transactions) = n + 1
              /\ SubSeq(After.transactions, 1, n) = Before.transactions
              /\ After.transactions[n + 1].type = "Interest Credit"
              /\ After.transactions[n + 1].amount = interest
              /\ After.transactions[n + 1].balance = After.balance
              /\ (Before.balance = Whole(150) /\ call.amount = Halves(7)) =>
                    /\ interest = Whole(5) + Unit \div 4
                    /\ After.balance = Whole(155) + Unit \div 4
    /\ call.op = "calculate_interest" =>
          /\ call.retNum = FDiv(FMul(Before.balance, call.amount), Whole(100))
          /\ accounts = pre.accounts
          /\ file = pre.file

C14_Witness ==
    /\ call.op = "add_interest"
    /\ Before.balance = Whole(150)
    /\ call.amount = Halves(7)
    /\ After.balance = Whole(155) + Unit \div 4
    /\ Len(After.transactions) = 3


\* Loading the file raises: it holds no JSON document, or one of its
\* records lacks a field load_data reads.
LoadFails(f) ==
    \/ f.state = "garbage"
    \/ /\ f.state = "json"
       /\ \E i \in 1..Len(f.text) :
             \E j \in 1..Len(LoadFields) : ~DictHas(f.text[i][2], LoadFields[j])

\* C15: constructing a directory never fails; when the file is absent the
\* directory is empty, and when loading fails at any point (no JSON
\* document, or a record lacking a field after earlier records were read)
\* the directory is empty, with no partially loaded accounts.
C15_FailedLoadGivesEmptyDirectory ==
    (call.op = "load_data" /\ (pre.file.state = "absent" \/ LoadFails(pre.file))) =>
        accounts = <<>>


\* C16: when the save step of create_account or delete_account fails, the
\* failure is reported to the caller of that operation, and the change to
\* the mapping is kept: the created account is in the mapping, the deleted
\* account is not.
C16_SaveFailureReported ==
    (call.op \in {"create_account", "delete_account"}
        /\ call.io \in {"open_fails", "write_fails"}) =>
        /\ call.exc # "None"
        /\ call.op = "create_account" => Len(accounts) = Len(pre.accounts) + 1
        /\ call.op = "delete_account" => ~DictHas(accounts, call.key)


\* C17: every record of every account's log, in every state, has
\* amount > 0 (Initial Deposit, Deposit, Withdrawal and Interest Credit
\* records, interest credited on a zero balance or with a zero or negative
\* rate included).
C17_RecordedAmountsPositive ==
    \A a \in AllAccounts : \A i \in 1..Len(a.transactions) : a.transactions[i].amount > 0


\* C18: in every state, for every account with a non-empty log, the
\* balance field of the last record equals the account's balance, and the
\* balance field of each record equals the balance the account had right
\* after the operation that appended it: the record an operation appends
\* carries the balance the operation leaves, and record i carries the
\* balance reached by the first i records.
C18_ResultingBalance ==
    /\ \A a \in AllAccounts :
          /\ a.transactions # <<>> =>
                a.transactions[Len(a.transactions)].balance = a.balance
          /\ \A i \in 1..Len(a.transactions) :
                a.transactions[i].balance = Replay(a.transactions, i)
    /\ (call.op \in {"deposit", "withdraw", "add_interest"} /\ call.exc = "None") =>
          After.transactions[Len(After.transactions)].balance = After.balance
    /\ (call.op = "create_account" /\ call.exc = "None" /\ call.amount > 0) =>
          LET a == DictGet(accounts, call.retId[1])
          IN  a.transactions[1].balance = a.balance

C18_Witness ==
    \E a \in AllAccounts :
        /\ Len(a.transactions) = 3
        /\ a.transactions[1].balance # a.transactions[2].balance
        /\ a.transactions[2].balance # a.transactions[3].balance
        /\ a.transactions[2].type = "Deposit"
        /\ a.transactions[3].balance = a.balance


\* C19: the transaction log is append-only: in every step other than the
\* construction of a new directory, for every account in the mapping
\* before and after the step, the log before is a prefix of the log after;
\* a successful deposit, withdraw or add_interest on the account lengthens
\* its log by exactly one record, and every other step (update_pin,
\* get_account, save_data, create and delete of other accounts, every
\* failed call) leaves it unchanged.
C19_LogAppendOnly ==
    [][call'.op # "load_data" =>
        \A k \in DictKeys(accounts) \cap DictKeys(accounts') :
            LET old == DictGet(accounts, k).transactions
                new == DictGet(accounts', k).transactions
            IN  IF /\ call'.op \in {"deposit", "withdraw", "add_interest"}
                   /\ call'.exc = "None"
                   /\ call'.key = k
                THEN /\ Len(new) = Len(old) + 1
                     /\ SubSeq(new, 1, Len(old)) = old
                ELSE new = old]_vars

\* A deposit has lengthened a non-empty log in a directory of two accounts.
C19_Witness ==
    /\ call.op = "deposit"
    /\ call.exc = "None"
    /\ Before.transactions # <<>>
    /\ Len(After.transactions) = Len(Before.transactions) + 1
    /\ Len(accounts) = 2


\* C20: deposit, withdraw, add_interest and update_pin on one account leave
\* every other account of the directory and the set of keys unchanged and
\* never change the account's identifier, holder name, type or creation
\* date; update_pin also leaves balance and log unchanged, and deposit,
\* withdraw and add_interest leave the PIN unchanged.
C20_Frame ==
    call.op \in {"deposit", "withdraw", "add_interest", "update_pin"} =>
        /\ DictKeys(accounts) = DictKeys(pre.accounts)
        /\ Len(accounts) = Len(pre.accounts)
        /\ \A k \in DictKeys(pre.accounts) \ {call.key} :
              DictGet(accounts, k) = DictGet(pre.accounts, k)
        /\ After.account_number = Before.account_number
        /\ After.name = Before.name
        /\ After.account_type = Before.account_type
        /\ After.creation_date = Before.creation_date
        /\ call.op = "update_pin" =>
              /\ After.balance = Before.balance
              /\ After.transactions = Before.transactions
        /\ call.op # "update_pin" => After.pin = Before.pin

\* A PIN is changed on one of two accounts that both have a history.
C20_Witness ==
    /\ call.op = "update_pin"
    /\ After.pin # Before.pin
    /\ Len(accounts) = 2
    /\ \A a \in AllAccounts : a.transactions # <<>> /\ a.balance > 0


(***************************************************************************)
(* The text shell.                                                         *)
(***************************************************************************)
\* The menu choices of the text shell.
MenuOps == {"create_account_menu", "login_menu", "admin_view", "deposit_menu",
            "withdraw_menu", "view_account", "calculate_interest_menu",
            "update_pin_menu", "delete_account_menu", "logout"}

\* C21: in the text shell the PIN of an account that stays in the directory
\* is changed by no menu choice but update-PIN; update-PIN sets it to the
\* entered new PIN when the entered current PIN equals the stored one, the
\* new PIN is exactly four digits and the confirmation equals the new PIN
\* (each line taken without its surrounding blanks), and leaves it as it
\* was when one of the three fails; and every account of the directory has
\* a PIN of exactly four digits in every state.
C21_PinChangesOnlyThroughUpdatePin ==
    /\ \A a \in AllAccounts : ValidPin(a.pin)
    /\ call.op \in MenuOps =>
          \A k \in DictKeys(pre.accounts) \cap DictKeys(accounts) :
              DictGet(accounts, k).pin # DictGet(pre.accounts, k).pin =>
                  call.op = "update_pin_menu" /\ k = call.key
    /\ call.op = "update_pin_menu" =>
          LET checks == /\ verify_pin(Before, strip(call.pin))
                        /\ ValidPin(strip(call.new_pin))
                        /\ strip(call.confirm) = strip(call.new_pin)
          IN  /\ checks => After.pin = strip(call.new_pin)
              /\ ~checks => After.pin = Before.pin /\ accounts = pre.accounts

\* update-PIN has replaced the PIN of one of two accounts by another PIN,
\* the current PIN having been typed with a trailing blank.
C21_Witness ==
    /\ call.op = "update_pin_menu"
    /\ Len(accounts) = 2
    /\ After.pin # Before.pin
    /\ call.pin # strip(call.pin)


\* C22: in the text shell where every save succeeds, at every menu prompt
\* the directory read back from the data file equals the directory in
\* memory (no file standing for the empty directory), and every menu
\* choice that reached its save has left the file holding the dump of the
\* directory as it is after the choice.
C22_FileEqualsDirectoryAtPrompt ==
    /\ Idle => SameMapping(load_data(file), accounts)
    /\ (call.op \in MenuOps /\ call.io = "ok") =>
          /\ file = save_data(accounts, pre.file, "ok")
          /\ SameMapping(load_data(file), accounts)
    /\ (call.op \in MenuOps /\ call.io # "ok") =>
          /\ accounts = pre.accounts
          /\ file = pre.file

\* A withdrawal at the account menu has changed one of two accounts and
\* the file has been rewritten.
C22_Witness ==
    /\ call.op = "withdraw_menu"
    /\ call.io = "ok"
    /\ Len(accounts) = 2
    /\ After.balance < Before.balance
    /\ file # pre.file


\* The choices of the account menu.
AccountOps == {"deposit_menu", "withdraw_menu", "view_account",
               "calculate_interest_menu", "update_pin_menu", "delete_account_menu"}

\* C23: in the text shell the account menu is entered only by a login
\* whose account number and PIN authenticate, on the account so obtained;
\* every choice of the account menu acts on that account, which is in the
\* directory when the choice is made, and leaves every other account as it
\* was; while the shell is in the account menu its account is in the
\* directory; a deletion that succeeds removes the account and leaves the
\* account menu at once, and a deletion that fails (not confirmed, or wrong
\* PIN) leaves the shell in the account menu and the directory unchanged.
C23_SessionAccount ==
    /\ ui.screen = "account" => DictHas(accounts, ui.account[1])
    /\ call.op \in AccountOps =>
          /\ pre.ui.screen = "account"
          /\ call.key = pre.ui.account[1]
          /\ DictHas(pre.accounts, call.key)
          /\ \A k \in DictKeys(pre.accounts) \ {call.key} :
                DictHas(accounts, k) /\ DictGet(accounts, k) = DictGet(pre.accounts, k)
    /\ call.op = "login_menu" =>
          LET r == get_account(pre.accounts, strip(call.line), strip(call.pin))
          IN  /\ pre.ui = MainMenu
              /\ r.exc = "None" => ui = AccountMenu(r.ret[1].account_number)
              /\ r.exc # "None" => ui = MainMenu
    /\ call.op \in MenuOps \ {"login_menu", "delete_account_menu", "logout"} =>
          ui = pre.ui
    /\ call.op = "delete_account_menu" =>
          /\ call.ret = <<TRUE>> <=> /\ strip(call.confirm) = <<"D", "E", "L", "E", "T", "E">>
                                     /\ verify_pin(Before, strip(call.pin))
          /\ call.ret = <<TRUE>> =>
                /\ ui = MainMenu
                /\ ~DictHas(accounts, call.key)
          /\ call.ret # <<TRUE>> =>
                /\ ui = pre.ui
                /\ accounts = pre.accounts
                /\ DictHas(accounts, call.key)

\* The account of the session has been deleted from a directory of two
\* accounts and the shell is back at the main menu.
C23_Witness ==
    /\ call.op = "delete_account_menu"
    /\ call.ret = <<TRUE>>
    /\ Len(pre.accounts) = 2
    /\ Len(accounts) = 1
    /\ ui = MainMenu
=============================================================================
